---- MODULE Spec2Model ----
(***************************************************************************)
(* Model of flashcards.py: the document segmenter (parse_latex_file), the  *)
(* aggregate loader (load_all_flashcards), the markup transcoder           *)
(* (prepare_latex_for_katex) and the startup / serving sequence (main,     *)
(* index, get_cards).                                                      *)
(*                                                                         *)
(* Text is a sequence of chunks.  A chunk is a run of characters that no   *)
(* pattern of the program can split: the single characters that the        *)
(* patterns name (backslash, braces, brackets, punctuation, white space,   *)
(* a digit, ordinary letters) and the command words ("section", "item",    *)
(* ...), which hold letters only.  A command such as \begin{itemize} is    *)
(* the chunks \, begin, {, item, ize, }, so every pattern sees the same    *)
(* prefixes, braces and backslashes it sees in the character string.       *)
(* Offsets are 0-based and count chunks, as Python's count characters.     *)
(***************************************************************************)
EXTENDS Integers, Sequences, FiniteSets, TLC

VARIABLES
    content,        \* parse_latex_file: the text read from the file
    sections,       \* parse_latex_file: the list of section matches
    spans,          \* parse_latex_file: (answer_start, answer_end) of each iteration
    flashcards,     \* parse_latex_file: the returned list of (question, answer)
    segPc,          \* "idle"; "read" before the call, "done" after it returns
    text,           \* prepare_latex_for_katex: the argument
    html,           \* prepare_latex_for_katex: the returned string
    transPc,        \* "idle"; "call" before the call, "done" after it returns
    dirExists,      \* the file system: whether the lectures directory exists
    dirFiles,       \* the file system: file name -> [kind, body] of each entry
    globbed,        \* load_all_flashcards: the matching names as glob yields them
    pending,        \* load_all_flashcards: the sorted names still to be read
    all_cards,      \* load_all_flashcards: the list built so far
    flashcard_data, \* the module's global
    stdout,         \* what main has printed
    stderr,         \* the exception that left main uncaught, "" when none
    responses,      \* the responses the server has sent, oldest first
    mainPc,         \* "idle"; where main stands
    allCards,       \* the page: the cards fetched from /api/cards
    cards,          \* the page: the deck of the quiz
    aliased,        \* the page: whether cards and allCards are one array
    currentIndex,   \* the page: 0-based index of the card on display
    showingAnswer,  \* the page: whether the answer is showing
    score,          \* the page: the points so far, counted in half points
    answered,       \* the page: the number of cards rated
    fetched,        \* the page: whether the fetch of /api/cards has resolved
    selectorShown,  \* the page: whether the lecture selector is displayed
    quizShown       \* the page: whether the quiz is displayed

segVars == <<content, sections, spans, flashcards, segPc>>
transVars == <<text, html, transPc>>
mainVars == <<dirExists, dirFiles, globbed, pending, all_cards, flashcard_data,
              stdout, stderr, responses, mainPc>>
quizVars == <<allCards, cards, aliased, currentIndex, showingAnswer, score,
              answered, fetched, selectorShown, quizShown>>
vars == <<segVars, transVars, mainVars, quizVars>>

----------------------------------------------------------------------------
(* Chunks *)

BS == "\\"
NL == "\n"

\* str.strip() with no argument removes white space
IsSpace(c) == c \in {" ", NL, "\t"}

\* content[a:b] for 0 <= a, b <= len(content)
Slice(s, a, b) == SubSeq(s, a + 1, b)

\* whether the literal lit stands at offset p of s
LitAt(s, p, lit) ==
    /\ p + Len(lit) <= Len(s)
    /\ \A k \in 1..Len(lit) : s[p + k] = lit[k]

RECURSIVE LStrip(_)
LStrip(s) == IF s # <<>> /\ IsSpace(Head(s)) THEN LStrip(Tail(s)) ELSE s

RECURSIVE RStrip(_)
RStrip(s) ==
    IF s # <<>> /\ IsSpace(s[Len(s)]) THEN RStrip(SubSeq(s, 1, Len(s) - 1)) ELSE s

strip(s) == RStrip(LStrip(s))

\* the offset after the longest run of chunks other than stop that starts at p:
\* where a greedy [^x]+ ends
RECURSIVE RunEnd(_, _, _)
RunEnd(s, p, stop) ==
    IF p < Len(s) /\ s[p + 1] # stop THEN RunEnd(s, p + 1, stop) ELSE p

\* re.search(literal, s): the offset of the first occurrence, -1 for None
RECURSIVE SearchFrom(_, _, _)
SearchFrom(s, p, lit) ==
    IF p + Len(lit) > Len(s) THEN -1
    ELSE IF LitAt(s, p, lit) THEN p
    ELSE SearchFrom(s, p + 1, lit)

----------------------------------------------------------------------------
(* parse_latex_file *)

SectionOpen == <<BS, "section", "{">>
PartOpen == <<BS, "part", "{">>

\* one match of \\section\{([^}]+)\} at offset p: its start, its end and the
\* span of group 1; [ok |-> FALSE] when the pattern does not match at p
SectionMatchAt(s, p) ==
    LET q == p + Len(SectionOpen)
        r == RunEnd(s, q, "}")
    IN  IF LitAt(s, p, SectionOpen) /\ r > q /\ r < Len(s)
        THEN [ok |-> TRUE, start |-> p, end |-> r + 1, g1 |-> Slice(s, q, r)]
        ELSE [ok |-> FALSE]

\* list(re.finditer(section_pattern, content)): the leftmost matches, each
\* search resuming where the previous match ended
RECURSIVE FindSections(_, _)
FindSections(s, p) ==
    IF p >= Len(s) THEN <<>>
    ELSE LET m == SectionMatchAt(s, p)
         IN  IF m.ok THEN <<m>> \o FindSections(s, m.end)
             ELSE FindSections(s, p + 1)

\* a faulty variant of PartEnd: the offset within the slice is taken for an
\* offset of content
PartEndNoOffset(s, answer_start) ==
    LET next_part == SearchFrom(Slice(s, answer_start, Len(s)), 0, PartOpen)
    IN  IF next_part # -1 THEN next_part ELSE Len(s)

\* re.search(r'\\part\{', content[answer_start:]) and the else branch
PartEnd(s, answer_start) ==
    LET next_part == SearchFrom(Slice(s, answer_start, Len(s)), 0, PartOpen)
    IN  IF next_part # -1 THEN answer_start + next_part ELSE Len(s)

\* a faulty variant of AnswerEnd: the span runs to the end of the next match,
\* not to its start
AnswerEndNextEnd(s, ms, i) ==
    IF i + 1 <= Len(ms)
    THEN ms[i + 1].end
    ELSE PartEnd(s, ms[i].end)

\* answer_end of iteration i (1-based here) of the loop
AnswerEnd(s, ms, i) ==
    IF i + 1 <= Len(ms)
    THEN ms[i + 1].start
    ELSE PartEnd(s, ms[i].end)

\* a faulty variant of Keep: only the question is tested
KeepQuestionOnly(question, answer) == question # <<>>

\* if question and answer
Keep(question, answer) == question # <<>> /\ answer # <<>>

\* the (answer_start, answer_end) of every iteration
AnswerSpans(s) ==
    LET ms == FindSections(s, 0)
    IN  [i \in 1..Len(ms) |->
            [start |-> ms[i].end, end |-> AnswerEnd(s, ms, i)]]

RECURSIVE ParseLoop(_, _, _)
ParseLoop(s, ms, i) ==
    IF i > Len(ms) THEN <<>>
    ELSE LET question == strip(ms[i].g1)
             answer == strip(Slice(s, ms[i].end, AnswerEnd(s, ms, i)))
         IN  (IF Keep(question, answer)
              THEN << <<question, answer>> >> ELSE <<>>)
             \o ParseLoop(s, ms, i + 1)

parse_latex_file(s) == ParseLoop(s, FindSections(s, 0), 1)

----------------------------------------------------------------------------
(* prepare_latex_for_katex: re.sub on chunk sequences *)

\* re.sub of a literal pattern: the leftmost occurrences, none overlapping
RECURSIVE SubLit(_, _, _)
SubLit(s, pat, rep) ==
    IF s = <<>> THEN <<>>
    ELSE IF LitAt(s, 0, pat)
         THEN rep \o SubLit(SubSeq(s, Len(pat) + 1, Len(s)), pat, rep)
         ELSE <<Head(s)>> \o SubLit(Tail(s), pat, rep)

\* a match of open([^}]+)\} at the head of s: the offset after the match, 0
\* when there is none (the greedy run must hold a chunk and be closed by })
BracedEnd(s, open) ==
    LET q == Len(open)
        r == RunEnd(s, q, "}")
    IN  IF LitAt(s, 0, open) /\ r > q /\ r < Len(s) THEN r + 1 ELSE 0

\* re.sub(open([^}]+)\}, l \1 r, s)
RECURSIVE SubBraced(_, _, _, _)
SubBraced(s, open, l, r) ==
    IF s = <<>> THEN <<>>
    ELSE LET e == BracedEnd(s, open)
         IN  IF e > 0
             THEN l \o Slice(s, Len(open), e - 1) \o r
                    \o SubBraced(SubSeq(s, e + 1, Len(s)), open, l, r)
             ELSE <<Head(s)>> \o SubBraced(Tail(s), open, l, r)

\* a match of open(.*?)close at the head of s: the offset where close starts,
\* -1 when there is none. The lazy group stops at the first close; without
\* re.DOTALL the dot does not match a newline
LazyClose(s, open, close, dotall) ==
    IF ~LitAt(s, 0, open) THEN -1
    ELSE LET q == SearchFrom(s, Len(open), close)
         IN  IF q = -1 THEN -1
             ELSE IF dotall \/ \A k \in (Len(open) + 1)..q : s[k] # NL THEN q
             ELSE -1

\* re.sub(open(.*?)close, l \1 r, s)
RECURSIVE SubLazy(_, _, _, _, _, _)
SubLazy(s, open, close, dotall, l, r) ==
    IF s = <<>> THEN <<>>
    ELSE LET q == LazyClose(s, open, close, dotall)
         IN  IF q # -1
             THEN l \o Slice(s, Len(open), q) \o r
                    \o SubLazy(SubSeq(s, q + Len(close) + 1, Len(s)),
                               open, close, dotall, l, r)
             ELSE <<Head(s)>> \o SubLazy(Tail(s), open, close, dotall, l, r)

\* \d
IsDigit(c) == c \in {"0", "1", "2", "3", "4", "5", "6", "7", "8", "9"}

RECURSIVE DigitsEnd(_, _)
DigitsEnd(s, p) ==
    IF p < Len(s) /\ IsDigit(s[p + 1]) THEN DigitsEnd(s, p + 1) ELSE p

BeginAlgorithmic == <<BS, "begin", "{", "algorithm", "ic", "}">>

\* a match of \\begin\{algorithmic\}\[\d*\] at the head of s: the offset
\* after it, 0 when there is none
AlgorithmicEnd(s) ==
    LET open == BeginAlgorithmic \o <<"[">>
        r == DigitsEnd(s, Len(open))
    IN  IF LitAt(s, 0, open) /\ r < Len(s) /\ s[r + 1] = "]" THEN r + 1 ELSE 0

\* line 77
RECURSIVE SubAlgorithmic(_)
SubAlgorithmic(s) ==
    IF s = <<>> THEN <<>>
    ELSE LET e == AlgorithmicEnd(s)
         IN  IF e > 0
             THEN <<"<div class=\"algorithmic\">">>
                    \o SubAlgorithmic(SubSeq(s, e + 1, Len(s)))
             ELSE <<Head(s)>> \o SubAlgorithmic(Tail(s))

\* line 72: \[...\] to $$...$$
DisplayMath(s) == SubLazy(s, <<BS, "[">>, <<BS, "]">>, TRUE, <<"$$">>, <<"$$">>)

\* lines 75-78
Environments(s) ==
    LET t1 == SubLit(s, <<BS, "begin", "{", "algorithm", "}">>,
                     <<"<div class=\"algorithm\">">>)
        t2 == SubLit(t1, <<BS, "end", "{", "algorithm", "}">>, <<"</div>">>)
        t3 == SubAlgorithmic(t2)
    IN  SubLit(t3, <<BS, "end", "{", "algorithm", "ic", "}">>, <<"</div>">>)

\* lines 81-83
Formatting(s) ==
    LET t1 == SubBraced(s, <<BS, "textbf", "{">>, <<"<strong>">>, <<"</strong>">>)
        t2 == SubBraced(t1, <<BS, "textit", "{">>, <<"<em>">>, <<"</em>">>)
    IN  SubBraced(t2, <<BS, "emph", "{">>, <<"<em>">>, <<"</em>">>)

\* line 90: \item[...] to <li><strong>...</strong> and a space
ItemLabels(s) ==
    SubLazy(s, <<BS, "item", "[">>, <<"]">>, FALSE,
            <<"<li><strong>">>, <<"</strong>", " ">>)

\* line 91
BareItems(s) == SubLit(s, <<BS, "item">>, <<"<li>">>)

\* lines 86-91
Lists(s) ==
    LET t1 == SubLit(s, <<BS, "begin", "{", "item", "ize", "}">>, <<"<ul>">>)
        t2 == SubLit(t1, <<BS, "end", "{", "item", "ize", "}">>, <<"</ul>">>)
        t3 == SubLit(t2, <<BS, "begin", "{", "enumerate", "}">>, <<"<ol>">>)
        t4 == SubLit(t3, <<BS, "end", "{", "enumerate", "}">>, <<"</ol>">>)
    IN  BareItems(ItemLabels(t4))

\* line 94: \subsection\*?\{([^}]+)\}; the star is tried first, and the two
\* openers never match at the same offset
RECURSIVE Subsections(_)
Subsections(s) ==
    IF s = <<>> THEN <<>>
    ELSE LET star == <<BS, "sub", "section", "*", "{">>
             plain == <<BS, "sub", "section", "{">>
             open == IF BracedEnd(s, star) > 0 THEN star ELSE plain
             e == BracedEnd(s, open)
         IN  IF e > 0
             THEN <<"<h4>">> \o Slice(s, Len(open), e - 1) \o <<"</h4>">>
                    \o Subsections(SubSeq(s, e + 1, Len(s)))
             ELSE <<Head(s)>> \o Subsections(Tail(s))

Keyword(w) == <<"<span class=\"algo-keyword\">" \o w \o "</span>">>

\* lines 97-107
AlgoCommands(s) ==
    LET t1 == SubLit(s, <<BS, "Require">>, Keyword("Require:"))
        t2 == SubLit(t1, <<BS, "Ensure">>, Keyword("Ensure:"))
        t3 == SubLit(t2, <<BS, "State">>, <<"<br>&nbsp;&nbsp;">>)
        t4 == SubLit(t3, <<BS, "Repeat">>, Keyword("Repeat:"))
        t5 == SubLit(t4, <<BS, "Until">>, Keyword("Until:"))
        t6 == SubLit(t5, <<BS, "If">>, Keyword("If"))
        t7 == SubLit(t6, <<BS, "Else">>, Keyword("Else"))
        t8 == SubLit(t7, <<BS, "End", "If">>, <<>>)
        t9 == SubLit(t8, <<BS, "For">>, Keyword("For"))
        t10 == SubLit(t9, <<BS, "End", "For">>, <<>>)
    IN  SubLit(t10, <<BS, "Return">>, Keyword("Return:"))

\* lines 110-116
Spacing(s) ==
    LET t1 == SubLit(s, <<BS, "quad">>, <<"&emsp;">>)
        t2 == SubLit(t1, <<BS, "q", "quad">>, <<"&emsp;&emsp;">>)
        t3 == SubLit(t2, <<BS, ";">>, <<"&thinsp;">>)
        t4 == SubLit(t3, <<BS, ",">>, <<"&thinsp;">>)
        t5 == SubLit(t4, <<BS, "!">>, <<>>)
        t6 == SubLit(t5, <<BS, BS>>, <<"<br>">>)
    IN  SubLit(t6, <<BS, "newline">>, <<"<br>">>)

\* text.split('\n'): the lines, one more than the newlines
RECURSIVE Split(_)
Split(s) ==
    LET q == SearchFrom(s, 0, <<NL>>)
    IN  IF q = -1 THEN <<s>>
        ELSE <<Slice(s, 0, q)>> \o Split(SubSeq(s, q + 2, Len(s)))

\* '\n'.join(result)
RECURSIVE Join(_)
Join(ls) ==
    IF Len(ls) = 1 THEN ls[1] ELSE ls[1] \o <<NL>> \o Join(Tail(ls))

\* a faulty variant of LineOf: a blank line is kept blank
LineOfKeepBlank(line) == strip(line)

\* lines 122-126: the body of the loop
LineOf(line) ==
    LET stripped == strip(line)
    IN  IF stripped # <<>> THEN stripped ELSE <<"<br>">>

\* lines 119-127
Lines(s) ==
    LET ls == Split(s)
    IN  Join([i \in 1..Len(ls) |-> LineOf(ls[i])])

prepare_latex_for_katex(s) ==
    Lines(Spacing(AlgoCommands(Subsections(Lists(Formatting(
        Environments(DisplayMath(s))))))))

----------------------------------------------------------------------------
(* The documents the segmenter is run on: up to MaxBlocks blocks *)

MaxBlocks == 4

DocBlocks ==
    { SectionOpen \o <<"a", "}">>,            \* \section{a}
      SectionOpen \o <<" ", "b", " ", "}">>,  \* \section{ b }
      SectionOpen \o <<" ", "}">>,            \* a title of white space
      SectionOpen \o <<"}">>,                 \* \section{}: no title
      SectionOpen \o <<"a">>,                 \* the brace never closes
      PartOpen \o <<"a", "}">>,               \* \part{a}
      <<"a">>,
      <<NL, "b", " ">>,
      <<" ", NL>> }

RECURSIVE Concat(_)
Concat(ss) == IF ss = <<>> THEN <<>> ELSE Head(ss) \o Concat(Tail(ss))

Docs == { Concat(bs) : bs \in UNION { [1..n -> DocBlocks] : n \in 0..MaxBlocks } }

\* no call of parse_latex_file is under way
SegIdle ==
    /\ content = <<>>
    /\ sections = <<>>
    /\ spans = <<>>
    /\ flashcards = <<>>
    /\ segPc = "idle"

\* no call of prepare_latex_for_katex is under way
TransIdle ==
    /\ text = <<>>
    /\ html = <<>>
    /\ transPc = "idle"

\* the module's global as the module body leaves it
InitialData ==
    [cards |-> <<>>, current_index |-> 0, score |-> 0, answered |-> 0,
     showing_answer |-> FALSE]

\* main is not run
MainIdle ==
    /\ dirExists = FALSE
    /\ dirFiles = <<>>
    /\ globbed = <<>>
    /\ pending = <<>>
    /\ all_cards = <<>>
    /\ flashcard_data = InitialData
    /\ stdout = <<>>
    /\ stderr = ""
    /\ responses = <<>>
    /\ mainPc = "idle"

\* the page as its script's declarations leave it, before anything else runs
QuizIdle ==
    /\ allCards = <<>>
    /\ cards = <<>>
    /\ aliased = FALSE
    /\ currentIndex = 0
    /\ showingAnswer = FALSE
    /\ score = 0
    /\ answered = 0
    /\ fetched = FALSE
    /\ selectorShown = FALSE
    /\ quizShown = FALSE

InitSeg ==
    /\ content \in Docs
    /\ sections = <<>>
    /\ spans = <<>>
    /\ flashcards = <<>>
    /\ segPc = "read"
    /\ TransIdle
    /\ MainIdle
    /\ QuizIdle

ParseLatexFile ==
    /\ segPc = "read"
    /\ sections' = FindSections(content, 0)
    /\ spans' = AnswerSpans(content)
    /\ flashcards' = parse_latex_file(content)
    /\ segPc' = "done"
    /\ UNCHANGED <<content, transVars, mainVars, quizVars>>

NextSeg == ParseLatexFile

SpecSeg == InitSeg /\ [][NextSeg]_vars

----------------------------------------------------------------------------
(* The texts the transcoder is run on *)

MaxPlain == 4
MaxMath == 4
MaxAlg == 4
MaxItems == 3

\* all concatenations of up to n members of the set of chunk sequences ps
Pieces(ps, n) == { Concat(bs) : bs \in UNION { [1..k -> ps] : k \in 0..n } }

\* text without a backslash: words, braces, brackets, white space
PlainTexts ==
    Pieces({ <<"a">>, <<" ">>, <<NL>>, <<"item">>, <<"[">>, <<"]">>, <<"}">> },
           MaxPlain)

\* display math and what may stand in it
MathTexts ==
    Pieces({ <<BS, "[">>, <<BS, "]">>, <<"a">>, <<" ">>, <<NL>>,
             <<BS, BS>>, <<BS, "quad">>, <<BS, "a">> }, MaxMath)

EndAlgorithmic == <<BS, "end", "{", "algorithm", "ic", "}">>

\* algorithmic environments, with [1], with [] and with no argument
AlgTexts ==
    Pieces({ BeginAlgorithmic, <<"[", "1", "]">>, <<"[", "]">>, EndAlgorithmic,
             <<BS, "State">>, <<"a">> }, MaxAlg)

BeginItemize == <<BS, "begin", "{", "item", "ize", "}">>
EndItemize == <<BS, "end", "{", "item", "ize", "}">>
Item == <<BS, "item">>

\* one item of a list: bare, or with a label in brackets
ItemForms ==
    { Item \o <<" ", "a">>,
      Item \o <<"b", NL>>,
      Item \o <<NL, "a", " ">>,
      Item \o <<"[", "a", "]", " ", "b">>,
      Item \o <<"[", "]", "a">>,
      Item \o <<"[", "a", NL, "b", "]", " ", "a">> }

\* \begin{itemize}, up to MaxItems items, \end{itemize}
ListTexts == { BeginItemize \o t \o EndItemize : t \in Pieces(ItemForms, MaxItems) }

MaxMalformed == 3

\* arguments, labels and math that never close, or close without opening
MalformedTexts ==
    Pieces({ <<BS, "textbf", "{">>, <<BS, "sub", "section", "*", "{">>,
             <<BS, "item", "[">>, <<BS, "[">>, <<BS>>, <<"}">>, <<"]">>, <<"a">> },
           MaxMalformed)

Texts == PlainTexts \cup MathTexts \cup AlgTexts \cup ListTexts \cup MalformedTexts

InitTrans ==
    /\ text \in Texts
    /\ html = <<>>
    /\ transPc = "call"
    /\ SegIdle
    /\ MainIdle
    /\ QuizIdle

\* whether every { of s has its } and every } its {
RECURSIVE Balanced(_, _)
Balanced(s, depth) ==
    IF s = <<>> THEN depth = 0
    ELSE IF Head(s) = "{" THEN Balanced(Tail(s), depth + 1)
    ELSE IF Head(s) = "}" THEN depth > 0 /\ Balanced(Tail(s), depth - 1)
    ELSE Balanced(Tail(s), depth)

\* a faulty variant of PrepareLatexForKatex: a validating transcoder, which
\* raises on a text whose braces do not match and returns nothing
PrepareLatexStrict ==
    /\ transPc = "call"
    /\ IF Balanced(text, 0)
          THEN /\ html' = Lines(Spacing(AlgoCommands(Subsections(Lists(
                              Formatting(Environments(DisplayMath(text))))))))
               /\ transPc' = "done"
          ELSE /\ html' = html
               /\ transPc' = "raised"
    /\ UNCHANGED <<text, segVars, mainVars, quizVars>>

PrepareLatexForKatex ==
    /\ transPc = "call"
    /\ html' = prepare_latex_for_katex(text)
    /\ transPc' = "done"
    /\ UNCHANGED <<text, segVars, mainVars, quizVars>>

NextTrans == PrepareLatexForKatex

SpecTrans == InitTrans /\ [][NextTrans]_vars

----------------------------------------------------------------------------
(* main, load_all_flashcards, index and get_cards *)

MaxFiles == 2
MaxRequests == 2

\* file names, chunk by chunk
Lecture01 == <<"lecture_", "0", "1", ".tex">>
Lecture02 == <<"lecture_", "0", "2", ".tex">>
Lecture10 == <<"lecture_", "1", "0", ".tex">>
Lecture2 == <<"lecture_", "2", ".tex">>
Notes == <<"notes", ".tex">>

FileNames == {Lecture01, Lecture02, Lecture10, Lecture2, Notes}

DocNoMarker == <<"a", NL>>
DocOneCard ==
    SectionOpen \o <<"a", "}", NL, BS, "textbf", "{", "b", "}", NL>>
DocTwoCards ==
    SectionOpen \o <<"b", "}", " ", "a">> \o SectionOpen \o <<"a", "}", "b", NL>>

\* what opening and reading a file gives: its text, or an error
FileStates ==
    { [kind |-> "text", body |-> DocNoMarker],
      [kind |-> "text", body |-> DocOneCard],
      [kind |-> "text", body |-> DocTwoCards],
      [kind |-> "unreadable", body |-> <<>>],
      [kind |-> "undecodable", body |-> <<>>] }

\* the code point of the first character of a chunk of a file name
Code(c) ==
    CASE c = ".tex" -> 46
      [] c = "0" -> 48
      [] c = "1" -> 49
      [] c = "2" -> 50
      [] c = "lecture_" -> 108
      [] c = "notes" -> 110

\* Path.__lt__ on two names of one directory: the order of their characters
RECURSIVE PathLess(_, _)
PathLess(a, b) ==
    IF b = <<>> THEN FALSE
    ELSE IF a = <<>> THEN TRUE
    ELSE IF Code(Head(a)) # Code(Head(b)) THEN Code(Head(a)) < Code(Head(b))
    ELSE PathLess(Tail(a), Tail(b))

RECURSIVE Insert(_, _)
Insert(x, s) ==
    IF s = <<>> THEN <<x>>
    ELSE IF PathLess(x, Head(s)) THEN <<x>> \o s
    ELSE <<Head(s)>> \o Insert(x, Tail(s))

RECURSIVE SortFrom(_, _)
SortFrom(s, acc) ==
    IF s = <<>> THEN acc ELSE SortFrom(Tail(s), Insert(Head(s), acc))

\* a faulty variant of sorted: the names are taken as glob yields them
unsorted(s) == s

\* sorted(...)
sorted(s) == SortFrom(s, <<>>)

\* lectures_path.glob('lecture_*.tex'): the names that match
Glob(files) ==
    {n \in DOMAIN files : Head(n) = "lecture_" /\ n[Len(n)] = ".tex"}

\* the orders in which the file system may yield the names of S
Orders(S) ==
    {o \in [1..Cardinality(S) -> S] : \A i, j \in 1..Cardinality(S) : o[i] = o[j] => i = j}

\* lines 63-64: the records of one file, each tagged with the file's name
Tag(parsed, name) == [i \in 1..Len(parsed) |-> <<parsed[i][1], parsed[i][2], name>>]

Line(msg, args) == [msg |-> msg, args |-> args]

Init ==
    /\ dirExists \in BOOLEAN
    /\ dirFiles \in
          IF dirExists
          THEN UNION { [D -> FileStates] :
                         D \in {E \in SUBSET FileNames : Cardinality(E) <= MaxFiles} }
          ELSE {<<>>}
    /\ globbed = <<>>
    /\ pending = <<>>
    /\ all_cards = <<>>
    /\ flashcard_data = InitialData
    /\ stdout = <<>>
    /\ stderr = ""
    /\ responses = <<>>
    /\ mainPc = "start"
    /\ SegIdle
    /\ TransIdle
    /\ QuizIdle

\* lines 665-673 and 58-61: main up to the first iteration of the loader
MainCheckDir ==
    /\ mainPc = "start"
    /\ \/ /\ ~dirExists
          /\ stdout' = Append(stdout, Line("Error: Lectures directory not found", <<>>))
          /\ mainPc' = "returned"
          /\ UNCHANGED <<globbed, pending>>
       \/ /\ dirExists
          /\ stdout' = Append(stdout, Line("Loading flashcards from LaTeX files...", <<>>))
          /\ \E order \in Orders(Glob(dirFiles)) :
                /\ globbed' = order
                /\ pending' = sorted(order)
          /\ mainPc' = "loading"
    /\ UNCHANGED <<dirExists, dirFiles, all_cards, flashcard_data, stderr, responses,
                   segVars, transVars,
                   quizVars>>

\* lines 61-64: one iteration of the loader; open and read may raise, and
\* nothing between there and the interpreter catches it
LoadFile ==
    /\ mainPc = "loading"
    /\ pending # <<>>
    /\ LET tex_file == Head(pending)
           f == dirFiles[tex_file]
       IN  \/ /\ f.kind = "text"
              /\ all_cards' = all_cards \o Tag(parse_latex_file(f.body), tex_file)
              /\ pending' = Tail(pending)
              /\ UNCHANGED <<stderr, mainPc>>
           \/ /\ f.kind # "text"
              /\ stderr' = (IF f.kind = "unreadable" THEN "OSError"
                            ELSE "UnicodeDecodeError")
              /\ mainPc' = "raised"
              /\ UNCHANGED <<all_cards, pending>>
    /\ UNCHANGED <<dirExists, dirFiles, globbed, flashcard_data, stdout, responses,
                   segVars, transVars,
                   quizVars>>

\* lines 66 and 673: the loader returns and main stores the list
LoadReturn ==
    /\ mainPc = "loading"
    /\ pending = <<>>
    /\ flashcard_data' = [flashcard_data EXCEPT !.cards = all_cards]
    /\ mainPc' = "loaded"
    /\ UNCHANGED <<dirExists, dirFiles, globbed, pending, all_cards, stdout, stderr,
                   responses, segVars, transVars,
                   quizVars>>

\* a faulty variant of MainCheckCards: the empty list is not tested
MainStartAlways ==
    /\ mainPc = "loaded"
    /\ stdout' = stdout \o
          << Line("Loaded questions from lecture files",
                  << Len(flashcard_data.cards),
                     Cardinality({flashcard_data.cards[i][3] :
                                    i \in 1..Len(flashcard_data.cards)}) >>),
             Line("Starting web server...", <<>>) >>
    /\ mainPc' = "serving"
    /\ UNCHANGED <<dirExists, dirFiles, globbed, pending, all_cards, flashcard_data,
                   stderr, responses, segVars, transVars,
                   quizVars>>

\* lines 675-686: main from the test of the list to app.run
MainCheckCards ==
    /\ mainPc = "loaded"
    /\ \/ /\ flashcard_data.cards = <<>>
          /\ stdout' = Append(stdout, Line("No flashcards found.", <<>>))
          /\ mainPc' = "returned"
       \/ /\ flashcard_data.cards # <<>>
          /\ stdout' = stdout \o
                << Line("Loaded questions from lecture files",
                        << Len(flashcard_data.cards),
                           Cardinality({flashcard_data.cards[i][3] :
                                          i \in 1..Len(flashcard_data.cards)}) >>),
                   Line("Starting web server...", <<>>) >>
          /\ mainPc' = "serving"
    /\ UNCHANGED <<dirExists, dirFiles, globbed, pending, all_cards, flashcard_data,
                   stderr, responses, segVars, transVars,
                   quizVars>>

\* lines 646-648: a request to /
index ==
    /\ mainPc = "serving"
    /\ Len(responses) < MaxRequests
    /\ responses' = Append(responses,
                           [route |-> "/", page |-> "HTML_TEMPLATE", cards |-> <<>>])
    /\ UNCHANGED <<dirExists, dirFiles, globbed, pending, all_cards, flashcard_data,
                   stdout, stderr, mainPc, segVars, transVars,
                   quizVars>>

\* lines 653-659: the list get_cards builds
TranscodedCards ==
    [i \in 1..Len(flashcard_data.cards) |->
        [question |-> prepare_latex_for_katex(flashcard_data.cards[i][1]),
         answer |-> prepare_latex_for_katex(flashcard_data.cards[i][2]),
         source |-> flashcard_data.cards[i][3]]]

\* a faulty variant of get_cards: the records are transcoded in place
get_cards_in_place ==
    /\ mainPc = "serving"
    /\ Len(responses) < MaxRequests
    /\ responses' = Append(responses,
                           [route |-> "/api/cards", page |-> "", cards |-> TranscodedCards])
    /\ flashcard_data' =
          [flashcard_data EXCEPT !.cards =
              [i \in 1..Len(flashcard_data.cards) |->
                  <<TranscodedCards[i].question, TranscodedCards[i].answer,
                    TranscodedCards[i].source>>]]
    /\ UNCHANGED <<dirExists, dirFiles, globbed, pending, all_cards,
                   stdout, stderr, mainPc, segVars, transVars,
                   quizVars>>

\* lines 651-660: a request to /api/cards
get_cards ==
    /\ mainPc = "serving"
    /\ Len(responses) < MaxRequests
    /\ responses' = Append(responses,
                           [route |-> "/api/cards", page |-> "", cards |-> TranscodedCards])
    /\ UNCHANGED <<dirExists, dirFiles, globbed, pending, all_cards, flashcard_data,
                   stdout, stderr, mainPc, segVars, transVars,
                   quizVars>>

Next ==
    \/ MainCheckDir
    \/ LoadFile
    \/ LoadReturn
    \/ MainCheckCards
    \/ index
    \/ get_cards

Spec == Init /\ [][Next]_vars

----------------------------------------------------------------------------
(* The page's script: the quiz of the browser *)

MaxCards == 2
MaxAnswered == 3

QuizSources == {"lecture_01", "lecture_02"}

\* what /api/cards may answer: cards told apart by their question, each with
\* the lecture it comes from
Decks ==
    { [i \in DOMAIN f |-> [question |-> i, source |-> f[i]]] :
        f \in UNION { [1..n -> QuizSources] : n \in 0..MaxCards } }

\* the points of the three rating buttons, in half points: 0, 0.5 and 1
Points == {0, 1, 2}

\* list.filter(keep): the entries that satisfy keep, in order
RECURSIVE Filter(_, _)
Filter(list, selected) ==
    IF list = <<>> THEN <<>>
    ELSE IF Head(list).source \in selected
         THEN <<Head(list)>> \o Filter(Tail(list), selected)
         ELSE Filter(Tail(list), selected)

\* [list[i], list[j]] = [list[j], list[i]], i and j 0-based
Swap(list, i, j) ==
    [k \in 1..Len(list) |-> IF k = i + 1 THEN list[j + 1]
                            ELSE IF k = j + 1 THEN list[i + 1]
                            ELSE list[k]]

\* the loop of shuffle from index i down to 1: every result that the draws
\* of Math.random can give
RECURSIVE FisherYates(_, _)
FisherYates(list, i) ==
    IF i <= 0 THEN {list}
    ELSE UNION { FisherYates(Swap(list, i, j), i - 1) : j \in 0..i }

\* lines 484-489: the fetch resolves; showSelector builds the options
CardsLoaded ==
    /\ ~fetched
    /\ \E data \in Decks : allCards' = data
    /\ aliased' = FALSE
    /\ fetched' = TRUE
    /\ selectorShown' = TRUE
    /\ UNCHANGED <<cards, currentIndex, showingAnswer, score, answered, quizShown,
                   segVars, transVars, mainVars>>

\* lines 510-527; selected is the set of the boxes that are checked, any of
\* the options that showSelector has built
startQuiz ==
    /\ selectorShown
    /\ \E selected \in SUBSET (IF fetched
                                 THEN {allCards[i].source : i \in 1..Len(allCards)}
                                 ELSE {}) :
          IF Filter(allCards, selected) = <<>>
            THEN cards' = allCards /\ aliased' = TRUE
            ELSE cards' = Filter(allCards, selected) /\ aliased' = FALSE
    /\ currentIndex' = 0
    /\ score' = 0
    /\ answered' = 0
    /\ showingAnswer' = FALSE
    /\ selectorShown' = FALSE
    /\ quizShown' = TRUE
    /\ UNCHANGED <<allCards, fetched, segVars, transVars, mainVars>>

\* lines 567-570; the button of the quiz or the space key
toggleAnswer ==
    /\ showingAnswer' = ~showingAnswer
    /\ UNCHANGED <<allCards, cards, aliased, currentIndex, score, answered, fetched,
                   selectorShown, quizShown, segVars, transVars, mainVars>>

\* lines 572-578; the button of the quiz or the left arrow
prevCard ==
    /\ IF currentIndex > 0
         THEN currentIndex' = currentIndex - 1 /\ showingAnswer' = FALSE
         ELSE UNCHANGED <<currentIndex, showingAnswer>>
    /\ UNCHANGED <<allCards, cards, aliased, score, answered, fetched,
                   selectorShown, quizShown, segVars, transVars, mainVars>>

\* lines 581-585: what nextCard does to the index and the answer
NextCardStep ==
    IF currentIndex < Len(cards) - 1
      THEN currentIndex' = currentIndex + 1 /\ showingAnswer' = FALSE
      ELSE UNCHANGED <<currentIndex, showingAnswer>>

\* lines 580-586; the button of the quiz or the right arrow
nextCard ==
    /\ NextCardStep
    /\ UNCHANGED <<allCards, cards, aliased, score, answered, fetched,
                   selectorShown, quizShown, segVars, transVars, mainVars>>

\* a faulty variant of rate: it counts the rating whether or not the answer
\* is showing
rateUnseen(points) ==
    /\ answered < MaxAnswered
    /\ score' = score + points
    /\ answered' = answered + 1
    /\ NextCardStep
    /\ UNCHANGED <<allCards, cards, aliased, fetched, selectorShown, quizShown,
                   segVars, transVars, mainVars>>

\* lines 588-596; a rating button or the keys 1, 2, 3
rate(points) ==
    IF ~showingAnswer
      THEN toggleAnswer
      ELSE /\ answered < MaxAnswered
           /\ score' = score + points
           /\ answered' = answered + 1
           /\ NextCardStep
           /\ UNCHANGED <<allCards, cards, aliased, fetched, selectorShown,
                          quizShown, segVars, transVars, mainVars>>

\* lines 598-608; the button of the quiz. The swaps are made in the array
\* itself, which is allCards too when startQuiz fell back on it
shuffle ==
    /\ quizShown
    /\ \E shuffled \in FisherYates(cards, Len(cards) - 1) :
          /\ cards' = shuffled
          /\ allCards' = IF aliased THEN shuffled ELSE allCards
    /\ currentIndex' = 0
    /\ score' = 0
    /\ answered' = 0
    /\ showingAnswer' = FALSE
    /\ UNCHANGED <<aliased, fetched, selectorShown, quizShown,
                   segVars, transVars, mainVars>>

\* lines 634-637: the Escape key brings the selector back
escape ==
    /\ quizShown' = FALSE
    /\ selectorShown' = TRUE
    /\ UNCHANGED <<allCards, cards, aliased, currentIndex, showingAnswer, score,
                   answered, fetched, segVars, transVars, mainVars>>

InitQuiz ==
    /\ QuizIdle
    /\ SegIdle
    /\ TransIdle
    /\ MainIdle

NextQuiz ==
    \/ CardsLoaded
    \/ startQuiz
    \/ toggleAnswer
    \/ prevCard
    \/ nextCard
    \/ \E points \in Points : rate(points)
    \/ shuffle
    \/ escape

SpecQuiz == InitQuiz /\ [][NextQuiz]_vars

----------------------------------------------------------------------------
(* Claims about parse_latex_file (SpecSeg) *)

\* s without its leading and trailing white space, said without recursion:
\* what stands from the first to the last chunk that is not white space
Trimmed(s) ==
    LET ink == {k \in 1..Len(s) : ~IsSpace(s[k])}
    IN  IF ink = {} THEN <<>>
        ELSE SubSeq(s, CHOOSE k \in ink : \A j \in ink : k <= j,
                       CHOOSE k \in ink : \A j \in ink : k >= j)

\* the offsets at or after a where \part{ stands
PartStarts(a) == {p \in a..Len(content) : LitAt(content, p, PartOpen)}

\* where the claims say the span of match i ends
SpanEndOf(i) ==
    IF i < Len(sections) THEN sections[i + 1].start
    ELSE IF PartStarts(sections[i].end) # {}
         THEN CHOOSE p \in PartStarts(sections[i].end) :
                \A q \in PartStarts(sections[i].end) : p <= q
         ELSE Len(content)

\* the pair the claims give match i
PairOf(i) ==
    << Trimmed(sections[i].g1),
       Trimmed(Slice(content, sections[i].end, SpanEndOf(i))) >>

\* the matches whose trimmed title and trimmed span are both non-empty
Kept == {i \in 1..Len(sections) : PairOf(i)[1] # <<>> /\ PairOf(i)[2] # <<>>}

\* the k-th smallest member of Kept
KeptAt(k) == CHOOSE i \in Kept : Cardinality({j \in Kept : j < i}) = k - 1

TwoMarkerDoc ==
    SectionOpen \o <<"a", "}">> \o <<"a">>
        \o SectionOpen \o <<" ", "b", " ", "}">> \o <<NL, "b", " ">>

\* C1: each \section match i gets the span from its end to the start of
\* match i+1, else to the first \part{ after it, else to the end of the
\* document; the returned pairs are the (trimmed title, trimmed span) of the
\* matches in document order (those with an empty side left out); the document
\* \section{a}a\section{ b }<newline>b<space> gives [(a, a), (b, b)].
C1_SpansAndPairs ==
    segPc = "done" =>
        /\ Len(spans) = Len(sections)
        /\ \A i \in 1..Len(sections) :
              spans[i] = [start |-> sections[i].end, end |-> SpanEndOf(i)]
        /\ Len(flashcards) = Cardinality(Kept)
        /\ \A k \in 1..Len(flashcards) : flashcards[k] = PairOf(KeptAt(k))
        /\ content = TwoMarkerDoc =>
              flashcards = << << <<"a">>, <<"a">> >>, << <<"b">>, <<"b">> >> >>

C1_Witness ==
    /\ segPc = "done"
    /\ content = TwoMarkerDoc
    /\ Len(flashcards) = 2

\* C4: the untrimmed spans are ordered and pairwise disjoint, and the markers
\* with their spans cover every offset from the start of the first marker to
\* the end boundary of the last span (the next \part{ or the end of the
\* document), each offset once, with no gap before the next marker.
C4_Partition ==
    segPc = "done" /\ sections # <<>> =>
        LET n == Len(sections)
            InMarker(i, p) == sections[i].start <= p /\ p < sections[i].end
            InSpan(i, p) == spans[i].start <= p /\ p < spans[i].end
        IN  /\ Len(spans) = n
            /\ \A i \in 1..n : spans[i].start <= spans[i].end
            /\ \A i \in 1..n : spans[i].start = sections[i].end
            /\ \A i \in 1..(n - 1) : spans[i].end = sections[i + 1].start
            /\ \A i, j \in 1..n : i < j => spans[i].end <= spans[j].start
            /\ \/ spans[n].end = Len(content)
               \/ LitAt(content, spans[n].end, PartOpen)
            /\ \A p \in sections[n].end..(spans[n].end - 1) :
                  ~LitAt(content, p, PartOpen)
            /\ \A p \in sections[1].start..(spans[n].end - 1) :
                  Cardinality({i \in 1..n : InMarker(i, p)})
                    + Cardinality({i \in 1..n : InSpan(i, p)}) = 1

\* two markers, a body between them, and the last span ended by a \part{
\* that stands before the end of the document
C4_Witness ==
    /\ segPc = "done"
    /\ Len(sections) = 2
    /\ spans[1].end > spans[1].start
    /\ spans[2].end < Len(content)
    /\ LitAt(content, spans[2].end, PartOpen)

\* whether \section{ followed at once by } stands at offset p
EmptyTitleAt(p) == LitAt(content, p, SectionOpen \o <<"}">>)

HasInk(s) == \E k \in 1..Len(s) : ~IsSpace(s[k])

\* C6: question and answer are trimmed and a pair with an empty side is
\* discarded: no returned side is empty or starts or ends with white space,
\* there is one record per marker whose title and body both hold something
\* other than white space, \section{} is no marker, and no marker means no
\* record.
C6_TrimAndDiscard ==
    segPc = "done" =>
        /\ \A k \in 1..Len(flashcards) : \A side \in 1..2 :
              LET t == flashcards[k][side]
              IN  t # <<>> /\ ~IsSpace(t[1]) /\ ~IsSpace(t[Len(t)])
        /\ Len(flashcards) =
              Cardinality({i \in 1..Len(sections) :
                  /\ HasInk(sections[i].g1)
                  /\ HasInk(Slice(content, spans[i].start, spans[i].end))})
        /\ \A i \in 1..Len(sections) :
              ~EmptyTitleAt(sections[i].start) /\ sections[i].g1 # <<>>
        /\ sections = <<>> => flashcards = <<>>

\* a marker with a white-space title and one with a white-space body are both
\* dropped while a third marker gives a record
C6_Witness ==
    /\ segPc = "done"
    /\ Len(sections) = 3
    /\ Len(flashcards) = 1
    /\ \E i \in 1..3 : ~HasInk(sections[i].g1)
    /\ \E i \in 1..3 :
          HasInk(sections[i].g1)
            /\ ~HasInk(Slice(content, spans[i].start, spans[i].end))

----------------------------------------------------------------------------
(* Claims about prepare_latex_for_katex (SpecTrans) *)

\* whether lit stands somewhere in s
Contains(s, lit) == \E p \in 0..Len(s) : LitAt(s, p, lit)

\* the offsets of s where lit stands
Occurrences(s, lit) == {p \in 0..Len(s) : LitAt(s, p, lit)}

\* the display-math blocks of the text: \[ at p, and the first \] after it at q
MathBlocks ==
    {pq \in (0..Len(text)) \X (0..Len(text)) :
        /\ LitAt(text, pq[1], <<BS, "[">>)
        /\ pq[2] >= pq[1] + 2
        /\ LitAt(text, pq[2], <<BS, "]">>)
        /\ \A q \in (pq[1] + 2)..(pq[2] - 1) : ~LitAt(text, q, <<BS, "]">>)}

\* C2: for every input that holds a display-math block \[X\], the output
\* holds $$X$$ with X exactly the chunks between \[ and \] in the input.
C2_DisplayMathVerbatim ==
    transPc = "done" =>
        \A pq \in MathBlocks :
            (\A p \in 0..(pq[1] - 1) : ~LitAt(text, p, <<BS, "[">>)) =>
                Contains(html, <<"$$">> \o Slice(text, pq[1] + 2, pq[2]) \o <<"$$">>)

\* C3: every \begin{algorithmic}, with [1], with [] or with no argument,
\* becomes <div class="algorithmic">, and every \end{algorithmic} becomes
\* </div>: as many opening tags as opening markers, as many closing tags as
\* closing markers.
C3_AlgorithmicContainers ==
    transPc = "done" =>
        /\ Cardinality(Occurrences(html, <<"<div class=\"algorithmic\">">>))
              = Cardinality(Occurrences(text, BeginAlgorithmic))
        /\ Cardinality(Occurrences(html, <<"</div>">>))
              = Cardinality(Occurrences(text, EndAlgorithmic))
        /\ ~Contains(html, BeginAlgorithmic)

\* a backslash of the text that starts nothing the rewrites know: it is the
\* last chunk, or what follows it starts no command
InertFollowers == {"a", "b", " ", NL, "\t", "{", "}", "]", "1", "*"}

Unrecognised(s) ==
    \A p \in 1..Len(s) :
        s[p] = BS => (p = Len(s) \/ s[p + 1] \in InertFollowers)

\* the places of the newlines of s, and the k-th of them (0 before the first
\* line, Len(s) + 1 after the last)
Newlines(s) == {p \in 1..Len(s) : s[p] = NL}

NewlineAt(s, k) ==
    IF k = 0 THEN 0
    ELSE IF k > Cardinality(Newlines(s)) THEN Len(s) + 1
    ELSE CHOOSE p \in Newlines(s) : Cardinality({q \in Newlines(s) : q < p}) = k - 1

\* the k-th line of s
LineAt(s, k) == SubSeq(s, NewlineAt(s, k - 1) + 1, NewlineAt(s, k) - 1)

\* C5: a text that holds nothing the rewrites recognise comes out with only
\* the line step applied: as many lines, in the same order, each trimmed, a
\* line with something on it kept as it is and a blank line replaced by <br>.
C5_PassThrough ==
    transPc = "done" /\ Unrecognised(text) =>
        /\ Cardinality(Newlines(html)) = Cardinality(Newlines(text))
        /\ \A k \in 1..(Cardinality(Newlines(text)) + 1) :
              LineAt(html, k) =
                  IF HasInk(LineAt(text, k)) THEN Trimmed(LineAt(text, k))
                  ELSE <<"<br>">>

\* an indented line with a bracket on it, then two blank lines
C5_Witness ==
    /\ transPc = "done"
    /\ text = <<" ", "[", NL, NL>>
    /\ html = <<"[", NL, "<br>", NL, "<br>">>

\* the text is a list block: \begin{itemize} first and \end{itemize} last
IsListBlock == 
    /\ LitAt(text, 0, BeginItemize)
    /\ Len(text) >= Len(BeginItemize) + Len(EndItemize)
    /\ LitAt(text, Len(text) - Len(EndItemize), EndItemize)

\* the offsets of the items of the text, and of those with a label
ItemsAt == Occurrences(text, Item)
LabelledAt == Occurrences(text, Item \o <<"[">>)

\* what is printed of s: its chunks other than white space and <br>
RECURSIVE Ink(_)
Ink(s) ==
    IF s = <<>> THEN <<>>
    ELSE (IF IsSpace(Head(s)) \/ Head(s) = "<br>" THEN <<>> ELSE <<Head(s)>>)
         \o Ink(Tail(s))

\* the list block with <ul>, <li> and </ul> in the places of its markers
RECURSIVE Tagged(_)
Tagged(s) ==
    IF s = <<>> THEN <<>>
    ELSE IF LitAt(s, 0, BeginItemize)
         THEN <<"<ul>">> \o Tagged(SubSeq(s, Len(BeginItemize) + 1, Len(s)))
    ELSE IF LitAt(s, 0, EndItemize)
         THEN <<"</ul>">> \o Tagged(SubSeq(s, Len(EndItemize) + 1, Len(s)))
    ELSE IF LitAt(s, 0, Item)
         THEN <<"<li>">> \o Tagged(SubSeq(s, Len(Item) + 1, Len(s)))
    ELSE <<Head(s)>> \o Tagged(Tail(s))

\* the label of the item at p: what stands between [ and the first ] after it
LabelOf(p) ==
    LET q == p + Len(Item) + 1
    IN  Slice(text, q, RunEnd(text, q, "]"))

\* C10, the bare items: a list block of n bare items gives <ul>, then n times
\* <li> each before its item's content, then </ul>, in the order of the input.
C10_BareItems ==
    transPc = "done" /\ IsListBlock /\ LabelledAt = {} =>
        /\ Cardinality(Occurrences(html, <<"<li>">>)) = Cardinality(ItemsAt)
        /\ Ink(html) = Ink(Tagged(text))

\* C10, the labels: an item \item[L] gives <li><strong>L</strong>, never a
\* bare <li> followed by the literal [L].
C10_Labels ==
    transPc = "done" /\ IsListBlock =>
        \A p \in LabelledAt :
            /\ Contains(html, <<"<li><strong>">> \o LabelOf(p) \o <<"</strong>">>)
            /\ ~Contains(html, <<"<li>", "[">> \o LabelOf(p) \o <<"]">>)

\* C10: a list block of n bare items gives <ul>, n times <li> each before its
\* item's content, and </ul>, in the order of the input; and an item with a
\* label \item[L] gives <li><strong>L</strong> followed by its body, never a
\* bare <li> followed by the literal [L].
C10_ListBlock == C10_BareItems /\ C10_Labels

\* a text with an argument, a label or a math block that is never closed, or
\* a closing brace or bracket that nothing opened
Malformed(s) ==
    \/ ~Balanced(s, 0)
    \/ \E p \in Occurrences(s, <<BS, "[">>) :
          \A q \in Occurrences(s, <<BS, "]">>) : q < p
    \/ \E p \in Occurrences(s, <<"[">>) : \A q \in Occurrences(s, <<"]">>) : q < p
    \/ \E q \in Occurrences(s, <<"]">>) : \A p \in Occurrences(s, <<"[">>) : p > q

\* C11: prepare_latex_for_katex is total: for every text, the empty one and
\* those with unmatched braces, brackets or math delimiters included, the only
\* way out of a call is its return, never a raise, and what it returns is a
\* string (for the empty text <br>, its one blank line).
C11_Total ==
    /\ [](transPc \in {"call", "done"})
    /\ [][transPc = "call" =>
            /\ transPc' = "done"
            /\ html' # <<>>
            /\ \A k \in 1..Len(html') : html'[k] \in STRING
            /\ text = <<>> => html' = <<"<br>">>]_vars

\* the call has returned for a text with an unclosed \textbf{ and a stray ]
C11_Witness ==
    /\ transPc = "done"
    /\ text = <<BS, "textbf", "{", "a", "]">>
    /\ Malformed(text)
    /\ html = text


----------------------------------------------------------------------------
(* Claims about main, load_all_flashcards and the routes (Spec) *)

\* the loader has returned to main
Loaded == mainPc \in {"loaded", "serving"} \/ (mainPc = "returned" /\ dirExists)

Matching == Glob(dirFiles)

\* the records file n gives: none when it cannot be read
RecordsOf(n) ==
    IF dirFiles[n].kind = "text" THEN parse_latex_file(dirFiles[n].body) ELSE <<>>

LastLine == stdout[Len(stdout)].msg

\* C7: the server answers requests only after the loader has read every
\* matching file and main has stored a non-empty list; with the directory
\* missing, no matching file, no record in any file, or a file that cannot be
\* opened or decoded, the server is never started, and main ends with the
\* message for the condition (or the exception leaves main uncaught).
C7_ServeOnlyWhenLoaded ==
    /\ mainPc = "serving" =>
          /\ dirExists
          /\ pending = <<>>
          /\ flashcard_data.cards = all_cards
          /\ flashcard_data.cards # <<>>
          /\ \A n \in Matching :
                /\ dirFiles[n].kind = "text"
                /\ \A i \in 1..Len(RecordsOf(n)) :
                      \E k \in 1..Len(flashcard_data.cards) :
                          flashcard_data.cards[k]
                            = <<RecordsOf(n)[i][1], RecordsOf(n)[i][2], n>>
    /\ responses # <<>> => mainPc = "serving"
    /\ flashcard_data.cards # <<>> => mainPc \in {"loaded", "serving"}
    /\ mainPc = "returned" =>
          /\ ~dirExists => LastLine = "Error: Lectures directory not found"
          /\ dirExists =>
                /\ LastLine = "No flashcards found."
                /\ \A n \in Matching : RecordsOf(n) = <<>>
    /\ mainPc = "raised" =>
          /\ stderr \in {"OSError", "UnicodeDecodeError"}
          /\ \E n \in Matching : dirFiles[n].kind # "text"
          /\ flashcard_data.cards = <<>>

\* the server has answered a request, the deck read from two files
C7_Witness ==
    /\ mainPc = "serving"
    /\ Cardinality(Matching) = 2
    /\ Cardinality({flashcard_data.cards[i][3] : i \in 1..Len(flashcard_data.cards)}) = 2
    /\ responses # <<>>

\* a before b in the order of their characters
LexLess(a, b) ==
    \E i \in 1..Len(b) :
        /\ \A j \in 1..(i - 1) : j <= Len(a) /\ a[j] = b[j]
        /\ i > Len(a) \/ Code(a[i]) < Code(b[i])

\* the k-th matching name in ascending order
NameAt(k) ==
    CHOOSE n \in Matching : Cardinality({m \in Matching : LexLess(m, n)}) = k - 1

\* the records of the k-th matching file and of those after it
RECURSIVE ExpectedFrom(_)
ExpectedFrom(k) ==
    IF k > Cardinality(Matching) THEN <<>>
    ELSE LET n == NameAt(k)
             r == RecordsOf(n)
         IN  [i \in 1..Len(r) |-> <<r[i][1], r[i][2], n>>] \o ExpectedFrom(k + 1)

\* C8: the loader returns the records of the matching files taken in
\* ascending order of file name, each file's records in document order and
\* tagged with the file's name, whatever the order glob yields the names in.
C8_FilenameOrder ==
    Loaded =>
        /\ all_cards = ExpectedFrom(1)
        /\ flashcard_data.cards = ExpectedFrom(1)

\* glob yields lecture_02.tex before lecture_01.tex and both give records
C8_Witness ==
    /\ Loaded
    /\ globbed = <<Lecture02, Lecture01>>
    /\ \E i, j \in 1..Len(flashcard_data.cards) :
          /\ i < j
          /\ flashcard_data.cards[i][3] = Lecture01
          /\ flashcard_data.cards[j][3] = Lecture02

\* the /api/cards responses sent so far
ApiResponses == {i \in 1..Len(responses) : responses[i].route = "/api/cards"}

\* C9: once the server runs, no request changes flashcard_data, and every
\* /api/cards response is the stored records in stored order with question
\* and answer transcoded, so any two such responses are the same.
C9_RecordsReadOnly ==
    /\ [][mainPc = "serving" => flashcard_data' = flashcard_data]_vars
    /\ [](\A i \in ApiResponses :
            /\ Len(responses[i].cards) = Len(flashcard_data.cards)
            /\ \A k \in 1..Len(flashcard_data.cards) :
                  /\ responses[i].cards[k].question
                        = prepare_latex_for_katex(flashcard_data.cards[k][1])
                  /\ responses[i].cards[k].answer
                        = prepare_latex_for_katex(flashcard_data.cards[k][2])
                  /\ responses[i].cards[k].source = flashcard_data.cards[k][3])
    /\ [](\A i, j \in ApiResponses : responses[i] = responses[j])

\* two /api/cards responses, an answer of which differs from the stored one
C9_Witness ==
    /\ mainPc = "serving"
    /\ Cardinality(ApiResponses) = 2
    /\ \E k \in 1..Len(flashcard_data.cards) :
          responses[1].cards[k].answer # flashcard_data.cards[k][2]

----------------------------------------------------------------------------
(* Claims about the quiz of the page (SpecQuiz) *)

\* a quiz has been started on a deck that is not empty: nothing else puts a
\* card into cards
Started == cards # <<>>

\* the step is a call of rate
RateStep == \E points \in Points : rate(points)

\* C12: once startQuiz has run on a non-empty deck, whatever toggleAnswer,
\* prevCard, nextCard, rate and shuffle do, currentIndex stays within
\* 0..cards.length - 1 and score within 0..answered (score is in half points
\* here); rate with the answer hidden only reveals it, rate with the answer
\* showing adds its points and one to answered, and a step that changes
\* currentIndex leaves the answer hidden.
C12_QuizBounds ==
    /\ [](Started =>
            /\ 0 <= currentIndex
            /\ currentIndex <= Len(cards) - 1
            /\ 0 <= score
            /\ score <= 2 * answered)
    /\ [][Started /\ RateStep /\ ~showingAnswer =>
            /\ showingAnswer'
            /\ UNCHANGED <<score, answered, currentIndex, cards>>]_vars
    /\ [][Started /\ RateStep /\ showingAnswer =>
            /\ answered' = answered + 1
            /\ score' - score \in Points]_vars
    /\ [][Started /\ (score' # score \/ answered' # answered) =>
            \/ showingAnswer /\ RateStep
            \/ score' = 0 /\ answered' = 0]_vars
    /\ [][Started /\ currentIndex' # currentIndex => ~showingAnswer']_vars

\* the quiz stands on its last card, which is not its first, after more
\* ratings than the deck has cards and with half a point among them
C12_Witness ==
    /\ Started
    /\ currentIndex = Len(cards) - 1
    /\ currentIndex > 0
    /\ answered > Len(cards)
    /\ score % 2 = 1
    /\ showingAnswer

====
